---- MODULE Spec2Model ----
(***************************************************************************)
(* Red-Sea-Risk-Case-Study: the Event Miner (Jobs/GDELT Miner.py), the     *)
(* Rate Upsampler (Jobs/Upsample Rates.py), the Dagster orchestrator       *)
(* (Jobs/repo.py) and the dashboard's sidebar defaults                     *)
(* (streamlitdashboard.py), each as a state machine of its own.            *)
(***************************************************************************)
EXTENDS Integers, Sequences, FiniteSets, TLC

VARIABLES
    \* ---- Event Miner (GDELT Miner.py) ----
    m_pc,               \* position in main() / parse_and_write()
    current,            \* main: the day being fetched, 1..NumDays (+1 when past end_date)
    global_id_counter,  \* main: global_id_counter
    start_id,           \* parse_and_write: start_id (parameter, incremented locally)
    day_rows_written,   \* parse_and_write: day_rows_written
    rows_read,          \* rows the csv reader has yielded in this call
    row,                \* parse_and_write: the row under the loop
    out,                \* rows written to OUTPUT_CSV through writer.writerow, in order
    day_start_counter,  \* history: global_id_counter when the day's try block was entered
    \* ---- Orchestrator (repo.py) ----
    news_csv,           \* historical_news_raw.csv: [exists, rows]
    rates_csv,          \* upsampled_rates.csv: [exists, rows]
    mongo,              \* collection SupplyChainDB.raw_gdelt_events
    staging,            \* table Staging_Rates: [exists, rows]
    gold,               \* table Gold_Analytics_RedSea: [exists, rows]
    n_pc,               \* position of ingest_news_to_mongo
    n_result,           \* what ingest_news_to_mongo returned
    r_pc,               \* position of ingest_rates_to_sql
    r_result,           \* what ingest_rates_to_sql returned
    t_pc,               \* position of transform_data_with_spark
    t_result,           \* what transform_data_with_spark returned (msg)
    df_final,           \* transform_data_with_spark: df_final
    fault,              \* history: the store or file error each unit met in this run
    gold_before,        \* history: the gold table when the run started
    \* ---- Dashboard (streamlitdashboard.py) ----
    d_pc,               \* position in the script
    df,                 \* df['full_date'] as load_data returned it (a set of timestamps)
    min_date,           \* min_date
    max_date,           \* max_date
    default_start,      \* default_start
    default_end,        \* default_end
    \* ---- Rate Upsampler (Upsample Rates.py) ----
    u_pc,               \* position in upsample_rates()
    rates_file,         \* rates.csv: [exists, rows]
    df_rates,           \* df_rates
    df_hourly           \* df_hourly

minerVars == <<m_pc, current, global_id_counter, start_id, day_rows_written,
               rows_read, row, out, day_start_counter>>

orchVars == <<news_csv, rates_csv, mongo, staging, gold, n_pc, n_result, r_pc,
              r_result, t_pc, t_result, df_final, fault, gold_before>>

dashVars == <<d_pc, df, min_date, max_date, default_start, default_end>>

upVars == <<u_pc, rates_file, df_rates, df_hourly>>

notMiner == <<orchVars, dashVars, upVars>>

notOrch == <<minerVars, dashVars, upVars>>

notDash == <<minerVars, orchVars, upVars>>

notUp == <<minerVars, orchVars, dashVars>>

vars == <<minerVars, orchVars, dashVars, upVars>>

----------------------------------------------------------------------------
(* Bounds *)

\* Days of the crisis window walked by main (the code walks 2023-10-19..2024-02-08).
NumDays == 2
\* Rows one API response holds at most (the code asks for MAX_RECORDS = 250).
MaxRows == 2
\* Weeks after the first that rates.csv can reach (the code's file holds ~17 rows).
MaxWeeks == 2

----------------------------------------------------------------------------
(* Characters and strings. A string is a sequence of one-character strings. *)

DecimalDigits == {"0", "1", "2", "3", "4", "5", "6", "7", "8", "9"}
\* "SUP2" stands for U+00B2: str.isdigit() is True for it, int() rejects it.
Whitespace == {" ", "TAB"}
NoneField == <<"<None>">>

Min(a, b) == IF a < b THEN a ELSE b

\* str.isdigit() of one character
IsDigit(ch) == ch \in DecimalDigits \cup {"SUP2"}

DigitVal(ch) ==
    CASE ch = "0" -> 0 [] ch = "1" -> 1 [] ch = "2" -> 2 [] ch = "3" -> 3
      [] ch = "4" -> 4 [] ch = "5" -> 5 [] ch = "6" -> 6 [] ch = "7" -> 7
      [] ch = "8" -> 8 [] ch = "9" -> 9

RECURSIVE DecimalValue(_)
DecimalValue(s) ==
    IF Len(s) = 0 THEN 0
    ELSE DecimalValue(SubSeq(s, 1, Len(s) - 1)) * 10 + DigitVal(s[Len(s)])

RECURSIVE LStrip(_)
LStrip(s) ==
    IF Len(s) > 0 /\ s[1] \in Whitespace THEN LStrip(Tail(s)) ELSE s

RECURSIVE RStrip(_)
RStrip(s) ==
    IF Len(s) > 0 /\ s[Len(s)] \in Whitespace
    THEN RStrip(SubSeq(s, 1, Len(s) - 1)) ELSE s

\* str.strip()
Strip(s) == RStrip(LStrip(s))

\* int(s) for a string of isdigit characters: ValueError on "" and on a
\* character that is a digit for isdigit but not a decimal.
IntOf(s) ==
    IF Len(s) = 0 \/ \E i \in 1..Len(s) : s[i] \notin DecimalDigits
    THEN [ok |-> FALSE, val |-> 0]
    ELSE [ok |-> TRUE, val |-> DecimalValue(s)]

\* float(s) on the tone strings of the model: surrounding whitespace and a
\* sign are accepted, then at least one decimal digit; anything else raises
\* ValueError.
FloatOf(s) ==
    LET t == Strip(s)
        neg == Len(t) > 0 /\ t[1] = "-"
        u == IF Len(t) > 0 /\ t[1] \in {"-", "+"} THEN Tail(t) ELSE t
        r == IntOf(u)
    IN  IF r.ok /\ \A i \in 1..Len(u) : u[i] \in DecimalDigits
        THEN [ok |-> TRUE, val |-> IF neg THEN 0 - r.val ELSE r.val]
        ELSE [ok |-> FALSE, val |-> 0]

----------------------------------------------------------------------------
(* Event Miner: the rows of an API response *)

\* norm_row.get("Date") or norm_row.get("date") or norm_row.get("DATE")
DateFields == {
    <<"2","0","2","3","1","0","1","9","T","1","2">>,
    <<"2","0","2","3","-","1","0","-","1","9">>,
    <<"2","0","2","3">>,
    <<"0","0","0","0","0","1","2","3">>,
    <<"#","7"," ","2","0","2","3","1","0","1","9">>,
    <<"D",":","2","0","2","3","1","0","1","9","Z","1">>,
    <<"n","/","a">>,
    <<"SUP2">>,
    <<>>,
    NoneField }

\* norm_row.get("URL") or norm_row.get("url") or norm_row.get("Url")
UrlFields == { <<"h">>, <<" ","h","TAB">>, <<" ">>, <<>>, NoneField }

\* norm_row.get("Tone") or norm_row.get("tone") or norm_row.get("AvgTone")
ToneFields == { <<"-","4">>, <<" ","-","4">>, <<"a","b">>, <<" ">>, <<>>, NoneField }

Rows == [Date : DateFields, URL : UrlFields, Tone : ToneFields]

\* The rows the main loop's responses are drawn from.
SampleRows == {
    [Date |-> <<"2","0","2","3","1","0","1","9","T","1","2">>, URL |-> <<"h">>,
     Tone |-> <<"-","4">>],
    [Date |-> <<"2","0","2","3">>, URL |-> <<" ","h","TAB">>, Tone |-> NoneField],
    [Date |-> <<"n","/","a">>, URL |-> <<"h">>, Tone |-> <<"-","4">>],
    [Date |-> <<"2","0","2","3","-","1","0","-","1","9">>, URL |-> <<" ">>,
     Tone |-> <<"-","4">>] }

\* random.gauss(-5.0, 2.0): any of these draws
GaussSamples == {-7, -5}

COUNTRY_CODE == "YEM"

\* generate_global_event_id
generate_global_event_id(counter) == counter

\* x or ""
OrEmpty(f) == IF f = NoneField THEN <<>> ELSE f

\* A cleaning that keeps every digit of the field (the [:8] forgotten).
CleanedDateUncut(date_raw) == SelectSeq(date_raw, IsDigit)

\* "".join(ch for ch in date_raw if ch.isdigit())[:8]
CleanedDate(date_raw) ==
    LET digits == SelectSeq(date_raw, IsDigit)
    IN  SubSeq(digits, 1, Min(8, Len(digits)))

\* int(cleaned_date), ValueError -> continue
DayInt(r) == IntOf(CleanedDate(OrEmpty(r.Date)))

\* url_val = (... or "").strip()
UrlVal(r) == Strip(OrEmpty(r.URL))

\* The tone values the row can be written with: float(tone_str) when tone_str
\* is truthy, not blank and parses; a Gaussian draw otherwise.
ToneVals(r) ==
    LET tone_str == r.Tone
    IN  IF tone_str # NoneField /\ Len(tone_str) > 0 /\ Len(Strip(tone_str)) > 0
           /\ FloatOf(tone_str).ok
        THEN {FloatOf(tone_str).val}
        ELSE GaussSamples

\* A parse_and_write that skips a row whose tone does not parse.
RowWrittenToneChecked(r) ==
    /\ DayInt(r).ok
    /\ Len(UrlVal(r)) > 0
    /\ r.Tone # NoneField /\ FloatOf(r.Tone).ok

\* Whether the loop body reaches writer.writerow for the row.
RowWritten(r) == DayInt(r).ok /\ Len(UrlVal(r)) > 0

----------------------------------------------------------------------------
(* Event Miner: parse_and_write *)

\* next(reader) yields a row
ReadRow(S) ==
    /\ m_pc = "parse"
    /\ rows_read < MaxRows
    /\ \E r \in S : row' = r
    /\ rows_read' = rows_read + 1
    /\ m_pc' = "row"
    /\ UNCHANGED <<current, global_id_counter, start_id, day_rows_written, out,
                   day_start_counter>>
    /\ UNCHANGED notMiner

\* The loop body for one row: the date and URL checks, the tone fallback,
\* writer.writerow, start_id += 1.
ProcessRow ==
    /\ m_pc = "row"
    /\ m_pc' = "parse"
    /\ IF RowWritten(row)
       THEN /\ \E tone_val \in ToneVals(row) :
                 out' = Append(out,
                     [GlobalEventID |-> generate_global_event_id(start_id),
                      Day |-> DayInt(row).val,
                      Country |-> COUNTRY_CODE,
                      Tone |-> tone_val,
                      SourceURL |-> UrlVal(row),
                      fetched |-> current])
            /\ start_id' = start_id + 1
            /\ day_rows_written' = day_rows_written + 1
       ELSE UNCHANGED <<out, start_id, day_rows_written>>
    /\ UNCHANGED <<current, global_id_counter, rows_read, row, day_start_counter>>
    /\ UNCHANGED notMiner

----------------------------------------------------------------------------
(* Event Miner: main *)

\* fetch_day_csv raises (requests exception, raise_for_status)
FetchRaises ==
    /\ m_pc = "fetch"
    /\ day_start_counter' = global_id_counter
    /\ m_pc' = "except"
    /\ UNCHANGED <<current, global_id_counter, start_id, day_rows_written,
                   rows_read, row, out>>
    /\ UNCHANGED notMiner

\* the response holds neither "SQLDATE" nor "Date"
FetchNoData ==
    /\ m_pc = "fetch"
    /\ day_start_counter' = global_id_counter
    /\ m_pc' = "sleep"
    /\ UNCHANGED <<current, global_id_counter, start_id, day_rows_written,
                   rows_read, row, out>>
    /\ UNCHANGED notMiner

\* the response is handed to parse_and_write(csv_text, writer, global_id_counter)
FetchData ==
    /\ m_pc = "fetch"
    /\ day_start_counter' = global_id_counter
    /\ start_id' = global_id_counter
    /\ day_rows_written' = 0
    /\ rows_read' = 0
    /\ m_pc' = "parse"
    /\ UNCHANGED <<current, global_id_counter, row, out>>
    /\ UNCHANGED notMiner

\* the reader is exhausted: parse_and_write returns start_id, main assigns it
ParseReturns ==
    /\ m_pc = "parse"
    /\ global_id_counter' = start_id
    /\ m_pc' = "sleep"
    /\ UNCHANGED <<current, start_id, day_rows_written, rows_read, row, out,
                   day_start_counter>>
    /\ UNCHANGED notMiner

\* next(reader) raises csv.Error (a field over the field size limit, a NUL);
\* the exception leaves parse_and_write and reaches main's except clause
ParseRaises ==
    /\ m_pc = "parse"
    /\ m_pc' = "except"
    /\ UNCHANGED <<current, global_id_counter, start_id, day_rows_written,
                   rows_read, row, out, day_start_counter>>
    /\ UNCHANGED notMiner

\* except Exception as e: print(...)
HandleException ==
    /\ m_pc = "except"
    /\ m_pc' = "sleep"
    /\ UNCHANGED <<current, global_id_counter, start_id, day_rows_written,
                   rows_read, row, out, day_start_counter>>
    /\ UNCHANGED notMiner

\* time.sleep(0.5); current += timedelta(days=1); while current <= end_date
NextDay ==
    /\ m_pc = "sleep"
    /\ current' = current + 1
    /\ m_pc' = IF current + 1 <= NumDays THEN "fetch" ELSE "done"
    /\ UNCHANGED <<global_id_counter, start_id, day_rows_written, rows_read,
                   row, out, day_start_counter>>
    /\ UNCHANGED notMiner

FIRST_ID == 100000

NoTable == [exists |-> FALSE, rows |-> <<>>]
NoFaults == [news |-> "none", rates |-> "none", transform |-> "none"]

\* The orchestrator before any run, with no source file yet.
OrchIdle ==
    /\ news_csv = NoTable
    /\ rates_csv = NoTable
    /\ mongo = <<>>
    /\ staging = NoTable
    /\ gold = NoTable
    /\ n_pc = "ready" /\ n_result = ""
    /\ r_pc = "ready" /\ r_result = ""
    /\ t_pc = "ready" /\ t_result = ""
    /\ df_final = <<>>
    /\ fault = NoFaults
    /\ gold_before = NoTable

NoDate == [y |-> 0, m |-> 0, d |-> 0]

\* The dashboard script before it is run.
DashIdle ==
    /\ d_pc = "load"
    /\ df = {}
    /\ min_date = NoDate
    /\ max_date = NoDate
    /\ default_start = NoDate
    /\ default_end = NoDate

\* The upsampler before it is run, with no rates.csv yet.
UpIdle ==
    /\ u_pc = "start"
    /\ rates_file = NoTable
    /\ df_rates = <<>>
    /\ df_hourly = <<>>

AnyRow == [Date |-> NoneField, URL |-> NoneField, Tone |-> NoneField]

MinerInit ==
    /\ m_pc = "fetch"
    /\ current = 1
    /\ global_id_counter = FIRST_ID
    /\ start_id = FIRST_ID
    /\ day_rows_written = 0
    /\ rows_read = 0
    /\ row = AnyRow
    /\ out = <<>>
    /\ day_start_counter = FIRST_ID

MinerNext ==
    \/ FetchRaises
    \/ FetchNoData
    \/ FetchData
    \/ ReadRow(SampleRows)
    \/ ProcessRow
    \/ ParseReturns
    \/ ParseRaises
    \/ HandleException
    \/ NextDay

SpecMinerInit == MinerInit /\ OrchIdle /\ DashIdle /\ UpIdle

SpecMiner == SpecMinerInit /\ [][MinerNext]_vars

----------------------------------------------------------------------------
(* parse_and_write called on its own, on one response of any rows *)

ParseInit ==
    /\ m_pc = "parse"
    /\ current = 1
    /\ global_id_counter = FIRST_ID
    /\ start_id \in {FIRST_ID, FIRST_ID + 1}
    /\ day_rows_written = 0
    /\ rows_read = 0
    /\ row = AnyRow
    /\ out = <<>>
    /\ day_start_counter = FIRST_ID

\* the reader is exhausted (or csv_text was empty): return start_id
DirectReturn ==
    /\ m_pc = "parse"
    /\ m_pc' = "returned"
    /\ UNCHANGED <<current, global_id_counter, start_id, day_rows_written,
                   rows_read, row, out, day_start_counter>>
    /\ UNCHANGED notMiner

\* next(reader) raises csv.Error: the call ends with the exception
DirectRaise ==
    /\ m_pc = "parse"
    /\ m_pc' = "raised"
    /\ UNCHANGED <<current, global_id_counter, start_id, day_rows_written,
                   rows_read, row, out, day_start_counter>>
    /\ UNCHANGED notMiner

ParseNext ==
    \/ ReadRow(Rows)
    \/ ProcessRow
    \/ DirectReturn
    \/ DirectRaise

SpecParseInit == ParseInit /\ OrchIdle /\ DashIdle /\ UpIdle

SpecParse == SpecParseInit /\ [][ParseNext]_vars

----------------------------------------------------------------------------
(* Event Miner: properties *)

\* C1: every record the Miner writes has a Day of exactly 8 decimal digits,
\* whatever the row's date field holds.
C1_DayAlwaysEightDigits ==
    \A i \in 1..Len(out) : out[i].Day >= 10000000 /\ out[i].Day <= 99999999

\* C2: when a day's processing raises, the day is skipped entirely: the output
\* holds no record fetched on that day and the surrogate-id counter is what it
\* was when the day began.
C2_FailedDaySkippedEntirely ==
    m_pc = "except" =>
        /\ \A i \in 1..Len(out) : out[i].fetched # current
        /\ global_id_counter = day_start_counter

\* C3: the GlobalEventID values of the written records increase strictly in
\* output order from 100000, and the final total (counter - 100000) is the
\* number of records written.
C3_IdsStrictlyIncreasing ==
    /\ \A i, j \in 1..Len(out) : i < j => out[i].GlobalEventID < out[j].GlobalEventID
    /\ Len(out) > 0 => out[1].GlobalEventID = 100000
    /\ m_pc = "done" => global_id_counter - 100000 = Len(out)

\* The row's URL holds a character that is not whitespace.
UrlNonBlank(r) ==
    r.URL # NoneField /\ \E i \in 1..Len(r.URL) : r.URL[i] \notin Whitespace

\* The row's date field holds a digit, and the first 8 of its digit
\* characters are decimal digits.
DatePrefixParseable(r) ==
    /\ r.Date # NoneField
    /\ \E i \in 1..Len(r.Date) : IsDigit(r.Date[i])
    /\ \A i \in 1..Len(r.Date) :
          (IsDigit(r.Date[i])
             /\ Cardinality({j \in 1..i : IsDigit(r.Date[j])}) <= 8)
          => r.Date[i] \in DecimalDigits

\* C4: the loop body emits exactly one record for a row with a non-blank URL
\* and a parseable date prefix, carrying the stripped URL and the next id, and
\* no record for any other row; the tone field plays no part in the decision.
C4_OneRecordPerAcceptedRow ==
    [][m_pc = "row" =>
         IF UrlNonBlank(row) /\ DatePrefixParseable(row)
         THEN /\ Len(out') = Len(out) + 1
              /\ SubSeq(out', 1, Len(out)) = out
              /\ out'[Len(out')].SourceURL = Strip(row.URL)
              /\ out'[Len(out')].GlobalEventID = start_id
              /\ start_id' = start_id + 1
         ELSE out' = out /\ start_id' = start_id]_vars

\* A response of two rows: the first rejected, the second, whose tone does not
\* parse, written with a fallback tone.
C4_Witness ==
    /\ m_pc = "returned"
    /\ rows_read = 2
    /\ Len(out) = 1
    /\ row.Tone = <<"a","b">>
    /\ row.URL = <<" ","h","TAB">>
    /\ out[1].SourceURL = <<"h">>
    /\ out[1].Tone \in GaussSamples

----------------------------------------------------------------------------
(* Orchestrator: the source files of a run *)

Doc(day, tone) == [Day |-> day, Tone |-> tone]
Ts(y, m, d, h) == [y |-> y, m |-> m, d |-> d, h |-> h]
Rate(ts, price) == [Date |-> ts, Price |-> price]

\* historical_news_raw.csv as the Miner can leave it (Day is what int() gave)
NewsFiles == {
    NoTable,
    [exists |-> TRUE, rows |-> <<>>],
    [exists |-> TRUE,
     rows |-> <<Doc(20231019, -3), Doc(20231019, -4), Doc(20231020, -6),
                Doc(20231019, -5)>>],
    [exists |-> TRUE,
     rows |-> <<Doc(2023, -5), Doc(20231021, -2), Doc(20231345, -5)>>] }

\* upsampled_rates.csv
RatesFiles == {
    NoTable,
    [exists |-> TRUE,
     rows |-> <<Rate(Ts(2023, 10, 19, 0), 1000), Rate(Ts(2023, 10, 19, 1), 1001),
                Rate(Ts(2023, 10, 20, 0), 1030), Rate(Ts(2023, 10, 22, 0), 1090)>>],
    [exists |-> TRUE, rows |-> <<Rate(Ts(2023, 10, 22, 0), 1090)>>],
    [exists |-> TRUE,
     rows |-> <<Rate(Ts(2023, 10, 21, 0), 1200), Rate(Ts(2023, 10, 21, 23), 1210)>>] }

----------------------------------------------------------------------------
(* Orchestrator: the transform's column expressions *)

DigitChar(d) ==
    CASE d = 0 -> "0" [] d = 1 -> "1" [] d = 2 -> "2" [] d = 3 -> "3"
      [] d = 4 -> "4" [] d = 5 -> "5" [] d = 6 -> "6" [] d = 7 -> "7"
      [] d = 8 -> "8" [] d = 9 -> "9"

\* The Day of a document read under StringType: the integer's decimal text.
RECURSIVE DayText(_)
DayText(n) ==
    IF n < 10 THEN <<DigitChar(n)>>
    ELSE Append(DayText(n \div 10), DigitChar(n % 10))

\* substring(col("Day"), 1, 8)
day_str(day) == SubSeq(DayText(day), 1, Min(8, Len(DayText(day))))

NullDate == [y |-> 0, m |-> 0, d |-> 0]

IsLeap(y) == (y % 4 = 0 /\ y % 100 # 0) \/ y % 400 = 0

DaysInMonth(y, m) ==
    IF m = 2 THEN (IF IsLeap(y) THEN 29 ELSE 28)
    ELSE IF m \in {4, 6, 9, 11} THEN 30 ELSE 31

\* to_date(col("day_str"), "yyyyMMdd"): NULL unless the text is 8 digits that
\* name a calendar date.
to_date_text(s) ==
    IF Len(s) # 8 THEN NullDate
    ELSE LET y == DecimalValue(SubSeq(s, 1, 4))
             m == DecimalValue(SubSeq(s, 5, 6))
             d == DecimalValue(SubSeq(s, 7, 8))
         IN  IF m >= 1 /\ m <= 12 /\ d >= 1 /\ d <= DaysInMonth(y, m)
             THEN [y |-> y, m |-> m, d |-> d]
             ELSE NullDate

\* event_date of a document
event_date(doc) == to_date_text(day_str(doc.Day))

\* to_date(df_rates.Date): the timestamp's calendar date
to_date_ts(ts) == [y |-> ts.y, m |-> ts.m, d |-> ts.d]

\* col("Tone") * -1
conflict_intensity(tone) == tone * (0 - 1)

RECURSIVE Gcd(_, _)
Gcd(a, b) == IF b = 0 THEN a ELSE Gcd(b, a % b)

Abs(x) == IF x < 0 THEN 0 - x ELSE x

\* A mean as a fraction in lowest terms.
Mean(sum, n) ==
    LET g == Gcd(Abs(sum), n)
    IN  [num |-> sum \div g, den |-> n \div g]

RECURSIVE SumIntensity(_, _)
SumIntensity(docs, date) ==
    IF docs = <<>> THEN 0
    ELSE (IF event_date(Head(docs)) = date
          THEN conflict_intensity(Head(docs).Tone) ELSE 0)
         + SumIntensity(Tail(docs), date)

\* df_news.groupBy("event_date").agg(count("*"), avg("conflict_intensity")):
\* one row per event_date, the NULL event_date a group of its own.
df_daily_news(docs) ==
    { [event_date |-> date,
       news_count |-> Cardinality({i \in 1..Len(docs) : event_date(docs[i]) = date}),
       avg_conflict_score |->
           Mean(SumIntensity(docs, date),
                Cardinality({i \in 1..Len(docs) : event_date(docs[i]) = date}))]
      : date \in {event_date(docs[i]) : i \in 1..Len(docs)} }

\* A join that keeps every rate row (how="left").
RECURSIVE LeftJoin(_, _)
LeftJoin(rates, daily) ==
    IF rates = <<>> THEN <<>>
    ELSE LET r == Head(rates)
             match == {g \in daily : g.event_date # NullDate
                                     /\ to_date_ts(r.Date) = g.event_date}
         IN  (IF match = {}
              THEN << [full_date |-> r.Date, Price |-> r.Price, news_count |-> 0,
                       avg_conflict_score |-> Mean(0, 1)] >>
              ELSE LET g == CHOOSE x \in match : TRUE
                   IN  << [full_date |-> r.Date, Price |-> r.Price,
                           news_count |-> g.news_count,
                           avg_conflict_score |-> g.avg_conflict_score] >>)
             \o LeftJoin(Tail(rates), daily)

\* df_rates.join(df_daily_news, to_date(df_rates.Date) == event_date,
\* how="inner").select(...): a NULL event_date equals nothing.
RECURSIVE InnerJoin(_, _)
InnerJoin(rates, daily) ==
    IF rates = <<>> THEN <<>>
    ELSE LET r == Head(rates)
             match == {g \in daily : g.event_date # NullDate
                                     /\ to_date_ts(r.Date) = g.event_date}
         IN  (IF match = {} THEN <<>>
              ELSE LET g == CHOOSE x \in match : TRUE
                   IN  << [full_date |-> r.Date, Price |-> r.Price,
                           news_count |-> g.news_count,
                           avg_conflict_score |-> g.avg_conflict_score] >>)
             \o InnerJoin(Tail(rates), daily)

Prefixes(q) == {SubSeq(q, 1, k) : k \in 0..(Len(q) - 1)}

----------------------------------------------------------------------------
(* Orchestrator: ingest_news_to_mongo *)

\* collection.delete_many({})
NewsClear ==
    /\ n_pc = "ready"
    /\ mongo' = <<>>
    /\ n_pc' = "cleared"
    /\ UNCHANGED <<news_csv, rates_csv, staging, gold, n_result, r_pc, r_result,
                   t_pc, t_result, df_final, fault, gold_before>>
    /\ UNCHANGED notOrch

\* collection.delete_many({}) raises (the store is unreachable): it stands
\* before the try block, the exception leaves the unit
NewsClearFails ==
    /\ n_pc = "ready"
    /\ n_pc' = "raised"
    /\ fault' = [fault EXCEPT !.news = "delete_many"]
    /\ UNCHANGED <<news_csv, rates_csv, mongo, staging, gold, n_result, r_pc,
                   r_result, t_pc, t_result, df_final, gold_before>>
    /\ UNCHANGED notOrch

\* pd.read_csv raises inside the try block: return f"Error: {e}"
NewsReadFails ==
    /\ n_pc = "cleared"
    /\ ~news_csv.exists
    /\ n_result' = "Error"
    /\ n_pc' = "returned"
    /\ fault' = [fault EXCEPT !.news = "read_csv"]
    /\ UNCHANGED <<news_csv, rates_csv, mongo, staging, gold, r_pc, r_result,
                   t_pc, t_result, df_final, gold_before>>
    /\ UNCHANGED notOrch

\* records is empty: return "CSV was empty."
NewsCsvEmpty ==
    /\ n_pc = "cleared"
    /\ news_csv.exists /\ news_csv.rows = <<>>
    /\ n_result' = "CSV was empty."
    /\ n_pc' = "returned"
    /\ UNCHANGED <<news_csv, rates_csv, mongo, staging, gold, r_pc, r_result,
                   t_pc, t_result, df_final, fault, gold_before>>
    /\ UNCHANGED notOrch

\* collection.insert_many(records); return "Success! ..."
NewsInsert ==
    /\ n_pc = "cleared"
    /\ news_csv.exists /\ news_csv.rows # <<>>
    /\ mongo' = mongo \o news_csv.rows
    /\ n_result' = "Success"
    /\ n_pc' = "returned"
    /\ UNCHANGED <<news_csv, rates_csv, staging, gold, r_pc, r_result,
                   t_pc, t_result, df_final, fault, gold_before>>
    /\ UNCHANGED notOrch

\* An ingest_news_to_mongo whose insert_many stands outside the try block.
NewsInsertFailsUncaught ==
    /\ n_pc = "cleared"
    /\ news_csv.exists /\ news_csv.rows # <<>>
    /\ \E done \in Prefixes(news_csv.rows) : mongo' = mongo \o done
    /\ n_pc' = "raised"
    /\ fault' = [fault EXCEPT !.news = "insert_many"]
    /\ UNCHANGED <<news_csv, rates_csv, staging, gold, n_result, r_pc, r_result,
                   t_pc, t_result, df_final, gold_before>>
    /\ UNCHANGED notOrch

\* collection.insert_many(records) raises after some of the documents went
\* in (an ordered bulk insert stops at the first error): return f"Error: {e}"
NewsInsertFails ==
    /\ n_pc = "cleared"
    /\ news_csv.exists /\ news_csv.rows # <<>>
    /\ \E done \in Prefixes(news_csv.rows) : mongo' = mongo \o done
    /\ n_result' = "Error"
    /\ n_pc' = "returned"
    /\ fault' = [fault EXCEPT !.news = "insert_many"]
    /\ UNCHANGED <<news_csv, rates_csv, staging, gold, r_pc, r_result,
                   t_pc, t_result, df_final, gold_before>>
    /\ UNCHANGED notOrch

----------------------------------------------------------------------------
(* Orchestrator: ingest_rates_to_sql *)

\* read_csv, connect, DROP/CREATE TABLE, the inserts, conn.commit()
RatesIngest ==
    /\ r_pc = "ready"
    /\ rates_csv.exists
    /\ staging' = [exists |-> TRUE, rows |-> rates_csv.rows]
    /\ r_result' = "Uploaded"
    /\ r_pc' = "returned"
    /\ UNCHANGED <<news_csv, rates_csv, mongo, gold, n_pc, n_result,
                   t_pc, t_result, df_final, fault, gold_before>>
    /\ UNCHANGED notOrch

\* read_csv, pyodbc.connect or cursor.execute raises: nothing catches it, and
\* the uncommitted statements are rolled back with the connection
RatesFails ==
    /\ r_pc = "ready"
    /\ \E f \in {"read_csv", "connect", "execute"} :
          /\ f = "read_csv" => ~rates_csv.exists
          /\ f # "read_csv" => rates_csv.exists
          /\ fault' = [fault EXCEPT !.rates = f]
    /\ r_pc' = "raised"
    /\ UNCHANGED <<news_csv, rates_csv, mongo, staging, gold, n_pc, n_result,
                   r_result, t_pc, t_result, df_final, gold_before>>
    /\ UNCHANGED notOrch

----------------------------------------------------------------------------
(* Orchestrator: transform_data_with_spark *)

\* @asset(deps=[ingest_news_to_mongo, ingest_rates_to_sql]): the step runs
\* once both upstream steps have returned
DepsReturned == n_pc = "returned" /\ r_pc = "returned"

\* an upstream step raised: the step is not run
TransformSkipped ==
    /\ t_pc = "ready"
    /\ n_pc \in {"returned", "raised"} /\ r_pc \in {"returned", "raised"}
    /\ ~DepsReturned
    /\ t_pc' = "skipped"
    /\ UNCHANGED <<news_csv, rates_csv, mongo, staging, gold, n_pc, n_result,
                   r_pc, r_result, t_result, df_final, fault, gold_before>>
    /\ UNCHANGED notOrch

\* the reads, the aggregation and the join, up to df_final.count()
TransformJoin ==
    /\ t_pc = "ready"
    /\ DepsReturned
    /\ df_final' = InnerJoin(staging.rows, df_daily_news(mongo))
    /\ t_pc' = "joined"
    /\ UNCHANGED <<news_csv, rates_csv, mongo, staging, gold, n_pc, n_result,
                   r_pc, r_result, t_result, fault, gold_before>>
    /\ UNCHANGED notOrch

\* a read raises (a store is unreachable): nothing catches it
TransformReadFails ==
    /\ t_pc = "ready"
    /\ DepsReturned
    /\ fault' = [fault EXCEPT !.transform = "read"]
    /\ t_pc' = "raised"
    /\ UNCHANGED <<news_csv, rates_csv, mongo, staging, gold, n_pc, n_result,
                   r_pc, r_result, t_result, df_final, gold_before>>
    /\ UNCHANGED notOrch

\* A write in mode("append").
GoldAppended(table, rows) == [exists |-> TRUE, rows |-> table.rows \o rows]

\* df_final.write...mode("overwrite").save()
GoldWritten(table, rows) == [exists |-> TRUE, rows |-> rows]

\* df_final.count() > 0: the write, msg = "Success! ..."
TransformWrite ==
    /\ t_pc = "joined"
    /\ Len(df_final) > 0
    /\ gold' = GoldWritten(gold, df_final)
    /\ t_result' = "Success"
    /\ t_pc' = "returned"
    /\ UNCHANGED <<news_csv, rates_csv, mongo, staging, n_pc, n_result,
                   r_pc, r_result, df_final, fault, gold_before>>
    /\ UNCHANGED notOrch

\* the write raises: before the table was replaced, or after it was
\* recreated and some of the rows went in
TransformWriteFails ==
    /\ t_pc = "joined"
    /\ Len(df_final) > 0
    /\ \/ gold' = gold
       \/ \E done \in Prefixes(df_final) : gold' = GoldWritten(gold, done)
    /\ fault' = [fault EXCEPT !.transform = "write"]
    /\ t_pc' = "raised"
    /\ UNCHANGED <<news_csv, rates_csv, mongo, staging, n_pc, n_result,
                   r_pc, r_result, t_result, df_final, gold_before>>
    /\ UNCHANGED notOrch

\* df_final.count() = 0: msg stays "Spark Job Ran. No matching dates ..."
TransformNoMatch ==
    /\ t_pc = "joined"
    /\ Len(df_final) = 0
    /\ t_result' = "No matching dates"
    /\ t_pc' = "returned"
    /\ UNCHANGED <<news_csv, rates_csv, mongo, staging, gold, n_pc, n_result,
                   r_pc, r_result, df_final, fault, gold_before>>
    /\ UNCHANGED notOrch

----------------------------------------------------------------------------
(* Orchestrator: runs *)

\* The next materialization of the three assets, over the files the Miner and
\* the Upsampler have left by then.
StartRun ==
    /\ t_pc \in {"returned", "raised", "skipped"}
    /\ news_csv' \in NewsFiles
    /\ rates_csv' \in RatesFiles
    /\ n_pc' = "ready" /\ n_result' = ""
    /\ r_pc' = "ready" /\ r_result' = ""
    /\ t_pc' = "ready" /\ t_result' = ""
    /\ df_final' = <<>>
    /\ fault' = NoFaults
    /\ gold_before' = gold
    /\ UNCHANGED <<mongo, staging, gold>>
    /\ UNCHANGED notOrch

OrchNext ==
    \/ NewsClear
    \/ NewsClearFails
    \/ NewsReadFails
    \/ NewsCsvEmpty
    \/ NewsInsert
    \/ NewsInsertFails
    \/ RatesIngest
    \/ RatesFails
    \/ TransformSkipped
    \/ TransformJoin
    \/ TransformReadFails
    \/ TransformWrite
    \/ TransformWriteFails
    \/ TransformNoMatch
    \/ StartRun

\* The first run: empty stores, no gold table, the source files of the day.
SpecOrchInit ==
    /\ MinerInit
    /\ news_csv \in NewsFiles
    /\ rates_csv \in RatesFiles
    /\ mongo = <<>>
    /\ staging = NoTable
    /\ gold = NoTable
    /\ n_pc = "ready" /\ n_result = ""
    /\ r_pc = "ready" /\ r_result = ""
    /\ t_pc = "ready" /\ t_result = ""
    /\ df_final = <<>>
    /\ fault = NoFaults
    /\ gold_before = NoTable
    /\ DashIdle
    /\ UpIdle

SpecOrch == SpecOrchInit /\ [][OrchNext]_vars

----------------------------------------------------------------------------
(* Orchestrator: properties *)

\* C5 as stated: after every run of the transform the gold table holds
\* exactly that run's join result, an empty one included.
C5_GoldIsJoinOfEveryRun ==
    t_pc = "returned" => gold.rows = df_final

\* C5 as amended: a transform that returns with a non-empty join result has
\* replaced the gold table by exactly that result; one that returns with an
\* empty join result has left the gold table as the run found it.
C5_GoldReplacedUnlessJoinEmpty ==
    t_pc = "returned" =>
        IF Len(df_final) > 0
        THEN gold = [exists |-> TRUE, rows |-> df_final]
        ELSE gold = gold_before

\* A run that replaced the different, non-empty result of an earlier run.
C5_Witness ==
    /\ t_pc = "returned"
    /\ Len(df_final) > 0
    /\ Len(gold_before.rows) > 0
    /\ gold_before.rows # df_final
    /\ gold.rows = df_final

StoreFaults == {"delete_many", "insert_many", "connect", "execute", "read", "write"}

\* C6 as stated: in each of the three units a store connection or write
\* error is caught and becomes a string result; no unit raises.
C6_StoreErrorsBecomeStrings ==
    /\ fault.news \in StoreFaults => n_pc = "returned" /\ n_result = "Error"
    /\ fault.rates \in StoreFaults => r_pc = "returned" /\ r_result = "Error"
    /\ fault.transform \in StoreFaults => t_pc = "returned" /\ t_result = "Error"

\* C6 as amended: ingest_news_to_mongo turns an error of reading the CSV or
\* of insert_many into the string result "Error: ..."; an error of its
\* delete_many, and every error in ingest_rates_to_sql and in
\* transform_data_with_spark, leaves the unit as an exception, with no result.
C6_OnlyNewsLoadErrorsCaught ==
    /\ fault.news \in {"read_csv", "insert_many"} =>
           n_pc = "returned" /\ n_result = "Error"
    /\ fault.news = "delete_many" => n_pc = "raised" /\ n_result = ""
    /\ fault.rates # "none" => r_pc = "raised" /\ r_result = ""
    /\ fault.transform # "none" => t_pc = "raised" /\ t_result = ""
    /\ n_result = "Error" => fault.news \in {"read_csv", "insert_many"}

\* One run in which insert_many failed and was reported as a string, and the
\* rate ingest met a connection error and raised.
C6_Witness ==
    /\ fault.news = "insert_many" /\ n_pc = "returned" /\ n_result = "Error"
    /\ fault.rates = "connect" /\ r_pc = "raised"

\* The documents of the collection whose Day is the calendar date of ts.
NewsOfDay(ts) ==
    {i \in 1..Len(mongo) : event_date(mongo[i]) # NullDate
                           /\ event_date(mongo[i]) = to_date_ts(ts)}

RECURSIVE NegatedToneSum(_)
NegatedToneSum(I) ==
    IF I = {} THEN 0
    ELSE LET i == CHOOSE x \in I : TRUE
         IN  (0 - mongo[i].Tone) + NegatedToneSum(I \ {i})

\* C7: the join result, and the gold table written from it, holds a row for
\* a rate hour exactly when some news record has the calendar date of its
\* timestamp; every row is a rate hour's, and carries the number of that
\* day's news records and the mean of their sign-inverted tones.
C7_InnerJoinOnCalendarDate ==
    t_pc \in {"joined", "returned"} =>
        /\ \A i \in 1..Len(staging.rows) :
              LET r == staging.rows[i]
                  copies == Cardinality({j \in 1..Len(staging.rows) : staging.rows[j] = r})
              IN  Cardinality({k \in 1..Len(df_final) :
                        df_final[k].full_date = r.Date /\ df_final[k].Price = r.Price})
                  = IF NewsOfDay(r.Date) # {} THEN copies ELSE 0
        /\ \A k \in 1..Len(df_final) :
              LET g == df_final[k]
              IN  /\ \E i \in 1..Len(staging.rows) :
                        staging.rows[i].Date = g.full_date /\ staging.rows[i].Price = g.Price
                  /\ g.news_count = Cardinality(NewsOfDay(g.full_date))
                  /\ g.news_count > 0
                  /\ g.avg_conflict_score.den > 0
                  /\ g.avg_conflict_score.num * g.news_count
                       = g.avg_conflict_score.den * NegatedToneSum(NewsOfDay(g.full_date))
        /\ (t_pc = "returned" /\ t_result = "Success") => gold.rows = df_final

\* Three articles of mean tone -4 on 2023-10-19, one on 2023-10-20, none on
\* 2023-10-22: the rate hours of the first two days are in the gold table,
\* the hour of 2023-10-22 is not.
C7_Witness ==
    /\ t_pc = "returned" /\ t_result = "Success"
    /\ Len(staging.rows) = 4
    /\ Len(gold.rows) = 3
    /\ \E k \in 1..Len(gold.rows) :
          /\ gold.rows[k].full_date = Ts(2023, 10, 19, 1)
          /\ gold.rows[k].news_count = 3
          /\ gold.rows[k].avg_conflict_score = [num |-> 4, den |-> 1]
    /\ \A k \in 1..Len(gold.rows) : gold.rows[k].full_date.d # 22

\* C8: the transform starts only after both ingests of the run have
\* completed, and reads the collection and the staging table as those
\* ingests loaded them, never what an ingest that failed to load left.
C8_TransformReadsLoadedStores ==
    t_pc = "joined" =>
        /\ n_pc = "returned" /\ r_pc = "returned"
        /\ n_result # "Error"
        /\ news_csv.exists /\ mongo = news_csv.rows
        /\ rates_csv.exists /\ staging.rows = rates_csv.rows

----------------------------------------------------------------------------
(* Dashboard: the sidebar's date range *)

Date(y, m, d) == [y |-> y, m |-> m, d |-> d]

\* datetime.date comparison
DateLess(a, b) ==
    \/ a.y < b.y
    \/ a.y = b.y /\ a.m < b.m
    \/ a.y = b.y /\ a.m = b.m /\ a.d < b.d

DateLeq(a, b) == a = b \/ DateLess(a, b)

\* pandas Timestamp comparison
TsLeq(a, b) ==
    \/ DateLess(to_date_ts(a), to_date_ts(b))
    \/ to_date_ts(a) = to_date_ts(b) /\ a.h <= b.h

\* The full_date values a gold table can hold.
GoldStamps == {
    Ts(2023, 10, 19, 0), Ts(2023, 10, 20, 5), Ts(2023, 11, 15, 0),
    Ts(2023, 12, 1, 12), Ts(2024, 1, 31, 23), Ts(2024, 2, 1, 0),
    Ts(2024, 2, 8, 0) }

\* load_data() returns the rows of the gold table
LoadData ==
    /\ d_pc = "load"
    /\ \E S \in SUBSET GoldStamps : df' = S
    /\ d_pc' = "loaded"
    /\ UNCHANGED <<min_date, max_date, default_start, default_end>>
    /\ UNCHANGED notDash

\* load_data() catches a connection error and returns pd.DataFrame()
LoadFails ==
    /\ d_pc = "load"
    /\ df' = {}
    /\ d_pc' = "loaded"
    /\ UNCHANGED <<min_date, max_date, default_start, default_end>>
    /\ UNCHANGED notDash

\* if df.empty: st.warning(...); st.stop()
StopNoData ==
    /\ d_pc = "loaded"
    /\ df = {}
    /\ d_pc' = "stopped"
    /\ UNCHANGED <<df, min_date, max_date, default_start, default_end>>
    /\ UNCHANGED notDash

\* min_date = df['full_date'].min().date(); max_date likewise
DataBounds ==
    /\ d_pc = "loaded"
    /\ df # {}
    /\ min_date' = to_date_ts(CHOOSE t \in df : \A u \in df : TsLeq(t, u))
    /\ max_date' = to_date_ts(CHOOSE t \in df : \A u \in df : TsLeq(u, t))
    /\ d_pc' = "bounds"
    /\ UNCHANGED <<df, default_start, default_end>>
    /\ UNCHANGED notDash

\* default_start = 2023-11-15; default_end = 2024-01-31
DefaultWindow ==
    /\ d_pc = "bounds"
    /\ default_start' = Date(2023, 11, 15)
    /\ default_end' = Date(2024, 1, 31)
    /\ d_pc' = "defaults"
    /\ UNCHANGED <<df, min_date, max_date>>
    /\ UNCHANGED notDash

\* if default_start < min_date: default_start = min_date
\* if default_end > max_date: default_end = max_date
ClampDefaults ==
    /\ d_pc = "defaults"
    /\ default_start' = IF DateLess(default_start, min_date) THEN min_date
                        ELSE default_start
    /\ default_end' = IF DateLess(max_date, default_end) THEN max_date
                      ELSE default_end
    /\ d_pc' = "date_input"
    /\ UNCHANGED <<df, min_date, max_date>>
    /\ UNCHANGED notDash

DashNext ==
    \/ LoadData
    \/ LoadFails
    \/ StopNoData
    \/ DataBounds
    \/ DefaultWindow
    \/ ClampDefaults

SpecDashInit == MinerInit /\ OrchIdle /\ DashIdle /\ UpIdle

SpecDash == SpecDashInit /\ [][DashNext]_vars

\* C9: for every non-empty gold table the default range handed to the
\* date-range control lies within the data bounds:
\* min_date <= default_start <= default_end <= max_date.
C9_DefaultRangeWithinData ==
    d_pc = "date_input" =>
        /\ DateLeq(min_date, default_start)
        /\ DateLeq(default_start, default_end)
        /\ DateLeq(default_end, max_date)

----------------------------------------------------------------------------
(* Rate Upsampler *)

HoursPerDay == 24
DaysPerWeek == 7

\* The weekly dates of rates.csv, as days counted from the earliest one.
WeekDates == {DaysPerWeek * w : w \in 0..MaxWeeks}
AnchorPrices == {1000, 1200}

\* Orders of the rows of a file: the sequences without repetition over S.
Arrangements(S) ==
    {q \in [1..Cardinality(S) -> S] : \A i, j \in 1..Cardinality(S) : i # j => q[i] # q[j]}

\* rates.csv: one row per week, for any non-empty choice of weeks, in any
\* order.
WeeklyFiles ==
    UNION { UNION { { [exists |-> TRUE,
                       rows |-> [i \in 1..Len(q) |-> [Date |-> q[i], Price |-> pr[i]]]]
                      : pr \in [1..Len(q) -> AnchorPrices] }
                    : q \in Arrangements(S) }
            : S \in (SUBSET WeekDates) \ {{}} }

NaN == [num |-> 0, den |-> 0]

\* pd.to_datetime(df_rates['Date']): midnight of the day, in hours
to_datetime(day) == day * HoursPerDay

RECURSIVE SortByDate(_)
SortByDate(rows) ==
    IF rows = <<>> THEN <<>>
    ELSE LET i == CHOOSE x \in 1..Len(rows) :
                     \A j \in 1..Len(rows) : rows[x].Date <= rows[j].Date
         IN  <<rows[i]>> \o SortByDate(SubSeq(rows, 1, i - 1) \o SubSeq(rows, i + 1, Len(rows)))

\* resample('h') up to the upsampling: the rows in date order on the hourly
\* grid from the first to the last timestamp, NaN where no row falls.
AsFreq(rows) ==
    LET sorted == SortByDate(rows)
        first == sorted[1].Date
        last == sorted[Len(sorted)].Date
    IN  [k \in 1..(last - first + 1) |->
            LET t == first + k - 1
                at == {i \in 1..Len(sorted) : sorted[i].Date = t}
            IN  [Date |-> t,
                 Price |-> IF at = {} THEN NaN
                           ELSE [num |-> sorted[CHOOSE i \in at : TRUE].Price, den |-> 1]]]

\* The positions of grid that hold a value.
ValidPositions(grid) == {k \in 1..Len(grid) : grid[k].Price # NaN}

\* An interpolate(method='pad'): the last value carried forward.
PadFill(grid, valid) ==
    [k \in 1..Len(grid) |->
        IF k \in valid \/ \A i \in valid : i > k THEN grid[k]
        ELSE LET lo == CHOOSE i \in valid : i < k /\ \A x \in valid : x < k => x <= i
             IN  [Date |-> grid[k].Date, Price |-> grid[lo].Price]]

\* interpolate(method='linear'): a NaN between two values lies on the line
\* through them over the row positions; a NaN after the last value takes it,
\* a NaN before the first stays.
LinearFill(grid, valid) ==
    [k \in 1..Len(grid) |->
        IF k \in valid \/ \A i \in valid : i > k THEN grid[k]
        ELSE LET lo == CHOOSE i \in valid : i < k /\ \A x \in valid : x < k => x <= i
             IN  IF \A j \in valid : j < k
                 THEN [Date |-> grid[k].Date, Price |-> grid[lo].Price]
                 ELSE LET hi == CHOOSE j \in valid : j > k /\ \A x \in valid : x > k => x >= j
                          a == grid[lo].Price.num
                          b == grid[hi].Price.num
                      IN  [Date |-> grid[k].Date,
                           Price |-> [num |-> a * (hi - lo) + (b - a) * (k - lo),
                                      den |-> hi - lo]]]

\* df_rates.resample('h').interpolate(method='linear')
ResampleInterpolate(rows) ==
    LET grid == AsFreq(rows)
    IN  LinearFill(grid, ValidPositions(grid))

\* pd.read_csv("rates.csv")
ReadRates ==
    /\ u_pc = "start"
    /\ rates_file.exists
    /\ df_rates' = rates_file.rows
    /\ u_pc' = "read"
    /\ UNCHANGED <<rates_file, df_hourly>>
    /\ UNCHANGED notUp

\* FileNotFoundError: print, sys.exit(1)
ReadRatesFails ==
    /\ u_pc = "start"
    /\ ~rates_file.exists
    /\ u_pc' = "exit"
    /\ UNCHANGED <<rates_file, df_rates, df_hourly>>
    /\ UNCHANGED notUp

\* df_rates['Date'] = pd.to_datetime(df_rates['Date']); set_index('Date')
SetDateIndex ==
    /\ u_pc = "read"
    /\ df_rates' = [i \in 1..Len(df_rates) |->
                       [Date |-> to_datetime(df_rates[i].Date),
                        Price |-> df_rates[i].Price]]
    /\ u_pc' = "indexed"
    /\ UNCHANGED <<rates_file, df_hourly>>
    /\ UNCHANGED notUp

\* df_hourly = df_rates.resample('h').interpolate(method='linear')
Upsample ==
    /\ u_pc = "indexed"
    /\ df_hourly' = ResampleInterpolate(df_rates)
    /\ u_pc' = "hourly"
    /\ UNCHANGED <<rates_file, df_rates>>
    /\ UNCHANGED notUp

\* reset_index, the Route column, the noise, round(2), to_csv: the prices
\* written are random draws around the interpolated ones and are not kept.
NoiseAndSave ==
    /\ u_pc = "hourly"
    /\ u_pc' = "saved"
    /\ UNCHANGED <<rates_file, df_rates, df_hourly>>
    /\ UNCHANGED notUp

UpNext ==
    \/ ReadRates
    \/ ReadRatesFails
    \/ SetDateIndex
    \/ Upsample
    \/ NoiseAndSave

SpecUpInit ==
    /\ MinerInit /\ OrchIdle /\ DashIdle
    /\ u_pc = "start"
    /\ rates_file \in WeeklyFiles \cup {NoTable}
    /\ df_rates = <<>>
    /\ df_hourly = <<>>

SpecUp == SpecUpInit /\ [][UpNext]_vars

\* The rows of rates.csv whose dates bound hour t with no other row's date
\* between them.
Bounding(t) ==
    {ab \in (1..Len(rates_file.rows)) \X (1..Len(rates_file.rows)) :
        LET ta == rates_file.rows[ab[1]].Date * 24
            tb == rates_file.rows[ab[2]].Date * 24
        IN  /\ ta <= t /\ t <= tb
            /\ \A c \in 1..Len(rates_file.rows) :
                  LET tc == rates_file.rows[c].Date * 24
                  IN  ~(ta < tc /\ tc < tb)
            /\ (ta = tb => t = ta)}

\* C10: for a weekly series whose first and last dates are D days apart the
\* upsampled series, before noise, has 24*D + 1 rows at contiguous hourly
\* timestamps from the first anchor to the last, none outside, and every
\* value lies on the straight line between the two adjacent anchors that
\* bound its timestamp (the anchor's value at an anchor's timestamp).
C10_HourlyGridOnAnchorLines ==
    u_pc \in {"hourly", "saved"} =>
        LET rows == rates_file.rows
            firstDay == CHOOSE d \in {rows[i].Date : i \in 1..Len(rows)} :
                            \A i \in 1..Len(rows) : d <= rows[i].Date
            lastDay == CHOOSE d \in {rows[i].Date : i \in 1..Len(rows)} :
                            \A i \in 1..Len(rows) : d >= rows[i].Date
            D == lastDay - firstDay
        IN  /\ Len(df_hourly) = 24 * D + 1
            /\ \A k \in 1..Len(df_hourly) :
                  /\ df_hourly[k].Date = 24 * firstDay + (k - 1)
                  /\ df_hourly[k].Date <= 24 * lastDay
                  /\ df_hourly[k].Price.den > 0
                  /\ Bounding(df_hourly[k].Date) # {}
                  /\ \A ab \in Bounding(df_hourly[k].Date) :
                        LET a == rows[ab[1]]
                            b == rows[ab[2]]
                            t == df_hourly[k].Date
                            v == df_hourly[k].Price
                        IN  IF a.Date = b.Date
                            THEN v.num = v.den * a.Price
                            ELSE v.num * (24 * b.Date - 24 * a.Date)
                                 = v.den * (a.Price * (24 * b.Date - t)
                                            + b.Price * (t - 24 * a.Date))

\* Three weekly rows given out of date order, prices 1000, 1200, 1000: 337
\* hourly rows, 1100 halfway through the first week.
C10_Witness ==
    /\ u_pc = "hourly"
    /\ Len(rates_file.rows) = 3
    /\ rates_file.rows[1] = [Date |-> 14, Price |-> 1000]
    /\ rates_file.rows[2] = [Date |-> 0, Price |-> 1000]
    /\ rates_file.rows[3] = [Date |-> 7, Price |-> 1200]
    /\ Len(df_hourly) = 337
    /\ df_hourly[85].Date = 84
    /\ df_hourly[85].Price.num = 1100 * df_hourly[85].Price.den
    /\ df_hourly[169].Price = [num |-> 1200, den |-> 1]

----------------------------------------------------------------------------
(* Event Miner: the date cleaning *)

\* The places of the field where 8 consecutive decimal digits name a
\* calendar date YYYYMMDD.
EmbeddedDates(f) ==
    {p \in 1..(Len(f) - 7) :
        /\ \A i \in p..(p + 7) : f[i] \in DecimalDigits
        /\ LET y == DecimalValue(SubSeq(f, p, p + 3))
               m == DecimalValue(SubSeq(f, p + 4, p + 5))
               d == DecimalValue(SubSeq(f, p + 6, p + 7))
           IN  y >= 1000 /\ m >= 1 /\ m <= 12 /\ d >= 1 /\ d <= DaysInMonth(y, m)}

\* C11 as stated: whenever the date field holds a valid YYYYMMDD anywhere
\* among other characters, the record written for the row has exactly those
\* 8 digits as its Day.
C11_EmbeddedDateExtracted ==
    [][(m_pc = "row" /\ row.Date # NoneField /\ Len(out') = Len(out) + 1) =>
          \A p \in EmbeddedDates(row.Date) :
              out'[Len(out')].Day = DecimalValue(SubSeq(row.Date, p, p + 7))]_vars

\* C11 as amended: whenever the date field holds a valid YYYYMMDD with no
\* digit character before it, the date is not what rejects the row (a record
\* is written exactly when the URL is not blank) and that record has exactly
\* those 8 digits as its Day, whatever else the field holds.
C11_LeadingDateExtracted ==
    [][(m_pc = "row" /\ row.Date # NoneField) =>
          \A p \in EmbeddedDates(row.Date) :
              (\A i \in 1..(p - 1) : ~IsDigit(row.Date[i])) =>
                  /\ Len(out') = Len(out) + 1 <=> UrlNonBlank(row)
                  /\ Len(out') = Len(out) + 1 =>
                        out'[Len(out')].Day = DecimalValue(SubSeq(row.Date, p, p + 7))]_vars

\* The field "D:20231019Z1": letters before the date, a letter and a further
\* digit after it; the record's Day is 20231019.
C11_Witness ==
    /\ m_pc = "parse"
    /\ rows_read = 1
    /\ row.Date = <<"D",":","2","0","2","3","1","0","1","9","Z","1">>
    /\ Len(out) = 1
    /\ out[1].Day = 20231019

====
